---- MODULE Spec2Model ----
(***************************************************************************)
(* Book-catalog backend (FastAPI + SQLAlchemy over SQLite): registration,  *)
(* login, bearer-token authentication and owner-scoped book records.       *)
(*                                                                         *)
(* Every request handler is a coroutine; it can be suspended at each       *)
(* `await` on the database session, so a handler is modelled as one step   *)
(* per awaited statement (a trailing refresh is taken with its commit).    *)
(* Each request runs in its own session: the rows it loaded are snapshots  *)
(* (`cu`, `bk`) that later commits of other requests do not change.        *)
(***************************************************************************)
EXTENDS Integers, Sequences, FiniteSets, TLC

VARIABLES
    users,   \* the rows of table "users"
    books,   \* the rows of table "books"
    reqs,    \* per connection: the request in flight, or its response
    now      \* the clock, in ticks of 1/TicksPerSecond second

vars == <<users, books, reqs, now>>

(***************************** bounds **************************************)
TicksPerSecond == 3     \* resolution of the modelled clock
MaxClock       == 1     \* seconds the clock may advance in SpecUpdate
MaxBooks       == 1     \* rows the model lets table "books" hold
MaxIssue       == 3     \* last tick at which SpecTok still issues a token
TokSlack       == 4     \* ticks SpecTok runs on after the last token's lifetime

(*************************** program constants *****************************)
ACCESS_TOKEN_EXPIRE_MINUTES == 10
SecondsPerMinute == 60
SECRET_KEY == "SECRET_KEY"
ALGORITHM  == "HS256"

None == "None"
NoYear == <<>>

Usernames == {"alice", "bob"}
Emails    == {"a@x.io", "b@x.io"}
\* a password is its first 72 bytes and whatever follows them
Passwords == { [first72 |-> "secret1", rest |-> ""],
               [first72 |-> "secret2", rest |-> ""],
               [first72 |-> "secret2", rest |-> "tail"] }

Max(S) == CHOOSE x \in S : \A y \in S : y <= x

(***************************** the clock ***********************************)
\* datetime -> whole seconds, as timegm(dt.utctimetuple()) and SQLite's
\* CURRENT_TIMESTAMP both do
Seconds(t) == t \div TicksPerSecond

(************************* credential hasher *******************************)
Truncate72(password) == password.first72

hash_password(password, salt) ==
    [alg |-> "bcrypt12", salt |-> salt, digest |-> Truncate72(password)]

verify_password(plain_password, hashed_password) ==
    /\ hashed_password.alg = "bcrypt12"
    /\ hashed_password.digest = Truncate72(plain_password)

(**************************** tokens ***************************************)
NoToken   == [kind |-> "missing"]
Malformed == [kind |-> "malformed"]

Jwt(key, sub, exp) == [kind |-> "jwt", key |-> key, alg |-> ALGORITHM, sub |-> sub, exp |-> exp]

\* timedelta(minutes=ACCESS_TOKEN_EXPIRE_MINUTES), in ticks
TokenLifetime == ACCESS_TOKEN_EXPIRE_MINUTES * SecondsPerMinute * TicksPerSecond

\* exp = utcnow() + 10 minutes, written into the token as whole seconds
create_access_token(username, t) == Jwt(SECRET_KEY, username, Seconds(t + TokenLifetime))

\* the payload, or NoPayload (Python's None): bad signature, malformed and
\* expired are one outcome
NoPayload == [none |-> TRUE]

\* (a verifier that rejects a token already in the second of its exp)
verify_jwt_token_Early(token, t) ==
    IF token.kind # "jwt" THEN NoPayload
    ELSE IF token.key # SECRET_KEY \/ token.alg # ALGORITHM THEN NoPayload
    ELSE IF token.exp <= Seconds(t) THEN NoPayload
    ELSE [sub |-> token.sub, exp |-> token.exp]

verify_jwt_token(token, t) ==
    IF token.kind # "jwt" THEN NoPayload
    ELSE IF token.key # SECRET_KEY \/ token.alg # ALGORITHM THEN NoPayload
    ELSE IF token.exp < Seconds(t) THEN NoPayload
    ELSE [sub |-> token.sub, exp |-> token.exp]

(*************************** persistence layer *****************************)
\* INTEGER PRIMARY KEY without AUTOINCREMENT (SQLite rowid): one more than
\* the largest id in use, so the id of a deleted last row is given out again
NextId(table) == IF table = {} THEN 1 ELSE Max({r.id : r \in table}) + 1

\* (the table without its UNIQUE constraint on email)
UniqueOK_UsernameOnly(table, row) ==
    \A u \in table : u.id # row.id => u.username # row.username

\* UNIQUE(username), UNIQUE(email); NULL emails never collide
UniqueOK(table, row) ==
    \A u \in table : u.id # row.id =>
        /\ u.username # row.username
        /\ (row.email = None \/ u.email # row.email)

ByUsername(table, username) == {u \in table : u.username = username}
ByEmail(table, email)       == {u \in table : u.email = email}
ById(table, id)             == {r \in table : r.id = id}

User(id, username, hashed_password, email, full_name, created_at) ==
    [id |-> id, username |-> username, hashed_password |-> hashed_password,
     email |-> email, full_name |-> full_name, created_at |-> created_at]

(***************************** connections *********************************)
Idle == [pc |-> "idle"]
Done(op, arg, status, uid, body) ==
    [pc |-> "done", op |-> op, arg |-> arg, status |-> status, uid |-> uid, body |-> body]
Free(c) == reqs[c].pc \in {"idle", "done"}
Reply(c, r) == reqs' = [reqs EXCEPT ![c] = r]

NoPassword == [first72 |-> "", rest |-> ""]

(***************************** POST /register ******************************)
\* The payload is fixed when the request arrives; the model draws each field
\* at the step that first reads it.
RegisterSelectUsername(c, username, email) ==
    /\ Free(c)
    /\ LET arg == [username |-> username, email |-> email] IN
       IF ByUsername(users, username) # {}
       THEN Reply(c, Done("register", arg, 400, 0, "Username already exists"))
       ELSE Reply(c, [pc |-> IF email # None THEN "reg_email" ELSE "reg_commit",
                      op |-> "register", arg |-> arg])
    /\ UNCHANGED <<users, books, now>>

RegisterSelectEmail(c) ==
    /\ reqs[c].pc = "reg_email"
    /\ IF ByEmail(users, reqs[c].arg.email) # {}
       THEN Reply(c, Done("register", reqs[c].arg, 400, 0, "Email already registered"))
       ELSE Reply(c, [reqs[c] EXCEPT !.pc = "reg_commit"])
    /\ UNCHANGED <<users, books, now>>

\* db.add(new_user); await db.commit(): the INSERT raises IntegrityError on a
\* UNIQUE violation, which no handler catches: 500 Internal Server Error
RegisterCommit(c, password, full_name, salt) ==
    /\ reqs[c].pc = "reg_commit"
    /\ LET arg == reqs[c].arg
           new_user == User(NextId(users), arg.username, hash_password(password, salt),
                            arg.email, full_name, Seconds(now))
       IN IF UniqueOK(users, new_user)
          THEN /\ users' = users \cup {new_user}
               /\ Reply(c, Done("register", arg, 200, 0, create_access_token(arg.username, now)))
          ELSE /\ users' = users
               /\ Reply(c, Done("register", arg, 500, 0, "IntegrityError"))
    /\ UNCHANGED <<books, now>>

(******************************* POST /login *******************************)
Login(c, username, password) ==
    /\ Free(c)
    /\ LET found == ByUsername(users, username)
           arg == [username |-> username]
       IN IF found = {} \/ \A u \in found : ~verify_password(password, u.hashed_password)
          THEN Reply(c, Done("login", arg, 401, 0, "Invalid username or password"))
          ELSE Reply(c, Done("login", arg, 200, 0, create_access_token(username, now)))
    /\ UNCHANGED <<users, books, now>>

(***************************** auth middleware *****************************)
\* (a gate that answers 401 for a subject without a row)
get_current_user_Always401(token, t, table) ==
    LET payload == verify_jwt_token(token, t) IN
    IF payload = NoPayload THEN [status |-> 401, detail |-> "Invalid token", user |-> None]
    ELSE IF payload.sub = None THEN [status |-> 401, detail |-> "Invalid token", user |-> None]
    ELSE IF ByUsername(table, payload.sub) = {}
         THEN [status |-> 401, detail |-> "Invalid token", user |-> None]
         ELSE [status |-> 200, detail |-> "", user |-> CHOOSE u \in ByUsername(table, payload.sub) : TRUE]

\* [status, user]: 401 without a verifiable token carrying a subject, 404
\* when no row has the subject as username, else the row
get_current_user(token, t, table) ==
    LET payload == verify_jwt_token(token, t) IN
    IF payload = NoPayload THEN [status |-> 401, detail |-> "Invalid token", user |-> None]
    ELSE IF payload.sub = None THEN [status |-> 401, detail |-> "Invalid token", user |-> None]
    ELSE IF ByUsername(table, payload.sub) = {}
         THEN [status |-> 404, detail |-> "User not found", user |-> None]
         ELSE [status |-> 200, detail |-> "", user |-> CHOOSE u \in ByUsername(table, payload.sub) : TRUE]

\* the dependency of every protected endpoint whose handler awaits again
Authenticate(c, op, token) ==
    /\ Free(c)
    /\ LET auth == get_current_user(token, now, users) IN
       IF auth.status # 200
       THEN Reply(c, Done(op, token, auth.status, 0, auth.detail))
       ELSE Reply(c, [pc |-> "authed", op |-> op, tok |-> token, cu |-> auth.user])
    /\ UNCHANGED <<users, books, now>>

(********************************* GET /me *********************************)
get_my_profile(c, token) ==
    /\ Free(c)
    /\ LET auth == get_current_user(token, now, users) IN
       IF auth.status # 200
       THEN Reply(c, Done("get_me", token, auth.status, 0, auth.detail))
       ELSE Reply(c, Done("get_me", token, 200, auth.user.id, auth.user))
    /\ UNCHANGED <<users, books, now>>

(********************************* PUT /me *********************************)
\* (a handler without the lookup of the new email)
UpdateMeSelectEmail_NoLookup(c, email) ==
    /\ reqs[c].pc = "authed" /\ reqs[c].op = "put_me"
    /\ email # None /\ email # reqs[c].cu.email
    /\ Reply(c, [pc |-> "me_commit", op |-> "put_me", cu |-> reqs[c].cu, email |-> email])
    /\ UNCHANGED <<users, books, now>>

UpdateMeSelectEmail(c, email) ==
    /\ reqs[c].pc = "authed" /\ reqs[c].op = "put_me"
    /\ email # None /\ email # reqs[c].cu.email
    /\ IF ByEmail(users, email) # {}
       THEN Reply(c, Done("put_me", [email |-> email], 400, reqs[c].cu.id, "Email already registered"))
       ELSE Reply(c, [pc |-> "me_commit", op |-> "put_me", cu |-> reqs[c].cu, email |-> email])
    /\ UNCHANGED <<users, books, now>>

\* (a handler that assigns full_name whether or not the request carries it)
UpdateMeWrite_AssignAll(table, cu, email, full_name, password, salt) ==
    LET cur == CHOOSE u \in table : u.id = cu.id
        e == IF email # None THEN email ELSE cu.email
        new == [cur EXCEPT !.email = IF e # cu.email THEN e ELSE @,
                           !.full_name = full_name,
                           !.hashed_password = IF password # NoPassword
                                               THEN hash_password(password, salt) ELSE @]
    IN IF UniqueOK(table, new)
       THEN [status |-> 200, table |-> (table \ {cur}) \cup {new}, body |-> new]
       ELSE [status |-> 500, table |-> table, body |-> "IntegrityError"]

\* The flush writes the attributes whose value differs from the loaded one
\* (UPDATE users SET ... WHERE id = ?); refresh re-reads the row.
UpdateMeWrite(table, cu, email, full_name, password, salt) ==
    LET cur == CHOOSE u \in table : u.id = cu.id
        e == IF email # None THEN email ELSE cu.email
        f == IF full_name # None THEN full_name ELSE cu.full_name
        new == [cur EXCEPT !.email = IF e # cu.email THEN e ELSE @,
                           !.full_name = IF f # cu.full_name THEN f ELSE @,
                           !.hashed_password = IF password # NoPassword
                                               THEN hash_password(password, salt) ELSE @]
    IN IF UniqueOK(table, new)
       THEN [status |-> 200, table |-> (table \ {cur}) \cup {new}, body |-> new]
       ELSE [status |-> 500, table |-> table, body |-> "IntegrityError"]

UpdateMeCommit(c, email, full_name, password, salt) ==
    /\ \/ /\ reqs[c].pc = "authed" /\ reqs[c].op = "put_me"
          /\ email \in {None, reqs[c].cu.email}
       \/ /\ reqs[c].pc = "me_commit"
          /\ email = reqs[c].email
    /\ LET cu == reqs[c].cu
           w == UpdateMeWrite(users, cu, email, full_name, password, salt)
           arg == [email |-> email, full_name |-> full_name, password |-> password]
       IN /\ users' = w.table
          /\ Reply(c, Done("put_me", arg, w.status, cu.id, w.body))
    /\ UNCHANGED <<books, now>>

(******************************** books ************************************)
Book(id, title, author, year, description, created_at, owner_id) ==
    [id |-> id, title |-> title, author |-> author, year |-> year,
     description |-> description, created_at |-> created_at, owner_id |-> owner_id]

\* select(Book).where(Book.id == book_id, Book.owner_id == current_user.id)
ByIdAndOwner(table, book_id, owner_id) ==
    {b \in table : b.id = book_id /\ b.owner_id = owner_id}
ByOwner(table, owner_id) == {b \in table : b.owner_id = owner_id}

\* scalar_one_or_none(), then 404 "Book not found" when there is no row
FindBook(table, book_id, owner_id) ==
    LET found == ByIdAndOwner(table, book_id, owner_id) IN
    IF found = {} THEN [status |-> 404, body |-> "Book not found"]
    ELSE [status |-> 200, body |-> CHOOSE b \in found : TRUE]

LowerCh(ch) ==
    CASE ch = "A" -> "a" [] ch = "D" -> "d" [] ch = "E" -> "e" [] ch = "H" -> "h"
      [] ch = "N" -> "n" [] OTHER -> ch
Lower(s) == [i \in 1..Len(s) |-> LowerCh(s[i])]
Contains(s, p) == \E i \in 0..(Len(s) - Len(p)) : SubSeq(s, i + 1, i + Len(p)) = p
\* column.ilike("%" + pattern + "%"), for patterns without % and _
ilike(s, pattern) == Contains(Lower(s), Lower(pattern))

\* ORDER BY created_at DESC: rows of the same second come in any order
Orderings(S) ==
    {s \in [1..Cardinality(S) -> S] :
        /\ \A i, j \in DOMAIN s : i < j => s[i] # s[j] /\ s[i].created_at >= s[j].created_at}

\* OFFSET skip LIMIT limit; SQLite reads a negative offset as 0 and a
\* negative limit as no limit
Page(s, skip, limit) ==
    LET off  == IF skip < 0 THEN 0 ELSE skip
        rest == SubSeq(s, off + 1, Len(s))
    IN IF limit < 0 \/ limit >= Len(rest) THEN rest ELSE SubSeq(rest, 1, limit)

(******************************* POST /books *******************************)
BookCreate(title, author, year, description) ==
    [title |-> title, author |-> author, year |-> year, description |-> description]

add_book(c, book_data) ==
    /\ reqs[c].pc = "authed" /\ reqs[c].op = "add_book"
    /\ LET new_book == Book(NextId(books), book_data.title, book_data.author, book_data.year,
                            book_data.description, Seconds(now), reqs[c].cu.id)
       IN /\ books' = books \cup {new_book}
          /\ Reply(c, Done("add_book", [id |-> new_book.id], 200, reqs[c].cu.id, new_book))
    /\ UNCHANGED <<users, now>>

(***************************** GET /me/profile *****************************)
get_my_full_profile(c) ==
    /\ reqs[c].pc = "authed" /\ reqs[c].op = "get_profile"
    /\ \E bs \in Orderings(ByOwner(books, reqs[c].cu.id)) :
          Reply(c, Done("get_profile", None, 200, reqs[c].cu.id,
                        [user |-> reqs[c].cu, books_count |-> Len(bs), books |-> bs]))
    /\ UNCHANGED <<users, books, now>>

(******************************** GET /books *******************************)
get_my_books(c, skip, limit, author, title) ==
    /\ reqs[c].pc = "authed" /\ reqs[c].op = "get_books"
    /\ LET found == {b \in ByOwner(books, reqs[c].cu.id) :
                        /\ author # <<>> => ilike(b.author, author)
                        /\ title # <<>> => ilike(b.title, title)}
       IN \E bs \in Orderings(found) :
             Reply(c, Done("get_books", None, 200, reqs[c].cu.id, Page(bs, skip, limit)))
    /\ UNCHANGED <<users, books, now>>

(***************************** GET /books/{id} *****************************)
get_book(c, book_id) ==
    /\ reqs[c].pc = "authed" /\ reqs[c].op = "get_book"
    /\ LET r == FindBook(books, book_id, reqs[c].cu.id) IN
       Reply(c, Done("get_book", [id |-> book_id], r.status, reqs[c].cu.id, r.body))
    /\ UNCHANGED <<users, books, now>>

(************************ PUT and DELETE /books/{id} ***********************)
\* the lookup both handlers start with: 404, or the row loaded into the session
BookSelect(c, op, book_id) ==
    /\ reqs[c].pc = "authed" /\ reqs[c].op = op
    /\ LET r == FindBook(books, book_id, reqs[c].cu.id) IN
       IF r.status # 200
       THEN Reply(c, Done(op, [id |-> book_id], r.status, reqs[c].cu.id, r.body))
       ELSE Reply(c, [pc |-> "bk_commit", op |-> op, cu |-> reqs[c].cu, bk |-> r.body])
    /\ UNCHANGED <<users, books, now>>

\* commit: UPDATE books SET <attributes that differ from the loaded ones>
\* WHERE books.id = ?, StaleDataError when it matches no row; then refresh:
\* SELECT ... WHERE books.id = ?, an error when the row is gone
UpdateBookWrite(table, bk, book_data) ==
    LET rows == ById(table, bk.id) IN
    IF rows = {} THEN [status |-> 500, table |-> table, body |-> "StaleDataError"]
    ELSE LET cur == CHOOSE r \in rows : TRUE
             new == [cur EXCEPT
                        !.title = IF book_data.title # bk.title THEN book_data.title ELSE @,
                        !.author = IF book_data.author # bk.author THEN book_data.author ELSE @,
                        !.year = IF book_data.year # bk.year THEN book_data.year ELSE @,
                        !.description = IF book_data.description # bk.description
                                        THEN book_data.description ELSE @]
         IN [status |-> 200, table |-> (table \ {cur}) \cup {new}, body |-> new]

update_book(c, book_data) ==
    /\ reqs[c].pc = "bk_commit" /\ reqs[c].op = "put_book"
    /\ LET w == UpdateBookWrite(books, reqs[c].bk, book_data) IN
       /\ books' = w.table
       /\ Reply(c, Done("put_book", [id |-> reqs[c].bk.id, data |-> book_data], w.status,
                        reqs[c].cu.id, w.body))
    /\ UNCHANGED <<users, now>>

\* db.delete(book); commit: DELETE FROM books WHERE books.id = ?; a DELETE
\* that matches no row only warns
DeleteBookWrite(table, bk) == table \ ById(table, bk.id)

delete_book(c) ==
    /\ reqs[c].pc = "bk_commit" /\ reqs[c].op = "delete_book"
    /\ books' = DeleteBookWrite(books, reqs[c].bk)
    /\ Reply(c, Done("delete_book", [id |-> reqs[c].bk.id], 200, reqs[c].cu.id,
                     "Book deleted successfully"))
    /\ UNCHANGED <<users, now>>

(******************************* the process *******************************)
\* (a startup that runs drop_all before create_all)
startup_DropAll(table) == {}

\* on_event("startup"): Base.metadata.create_all creates the tables that do
\* not exist yet and leaves existing tables and their rows alone
startup(table) == table

\* the process stops (requests in flight are lost) and starts again
Restart ==
    /\ \E c \in DOMAIN reqs : reqs[c].pc # "idle"
    /\ users' = startup(users)
    /\ books' = startup(books)
    /\ reqs' = [c \in DOMAIN reqs |-> Idle]
    /\ UNCHANGED now

PassSecond ==
    /\ Seconds(now) < MaxClock
    /\ now' = now + TicksPerSecond
    /\ UNCHANGED <<users, books, reqs>>

(**************************** request inputs *******************************)
\* bearer tokens a client may present: none, garbage, and signed tokens
\* (with the server's key or another) already expired or freshly issued
Fresh   == create_access_token("", now).exp
Expired == Seconds(now) - 1

TokensOf(kinds, subs) ==
    (IF "missing" \in kinds THEN {NoToken} ELSE {})
    \cup (IF "malformed" \in kinds THEN {Malformed} ELSE {})
    \cup (IF "nosub" \in kinds THEN {Jwt(SECRET_KEY, None, Fresh)} ELSE {})
    \cup (IF "forged" \in kinds THEN {Jwt("other key", s, Fresh) : s \in subs} ELSE {})
    \cup (IF "expired" \in kinds THEN {Jwt(SECRET_KEY, s, Expired) : s \in subs} ELSE {})
    \cup (IF "valid" \in kinds THEN {Jwt(SECRET_KEY, s, Fresh) : s \in subs} ELSE {})

AllTokenKinds == {"missing", "malformed", "nosub", "forged", "expired", "valid"}

Dune == BookCreate(<<"D", "u", "n", "e">>, <<"H", "e", "r", "b", "e", "r", "t">>, NoYear, None)
Emma == BookCreate(<<"E", "m", "m", "a">>, <<"A", "u", "s", "t", "e", "n">>, <<1815>>, "a novel")
Filters == { <<>>, <<"h", "e", "r">>, <<"u", "N">> }
Skips   == { 0, 1 }
Limits  == { 1, 100 }

InitWith(conns) ==
    /\ users = {}
    /\ books = {}
    /\ reqs = [c \in conns |-> Idle]
    /\ now = 0

(* The requests of a run: D names the sets the request fields are drawn
   from and the protected endpoints that are called. *)
RegisterSteps(D) ==
    \/ \E c \in DOMAIN reqs, u \in D.usernames, e \in D.reg_emails : RegisterSelectUsername(c, u, e)
    \/ \E c \in DOMAIN reqs : RegisterSelectEmail(c)
    \/ \E c \in DOMAIN reqs, p \in D.reg_passwords, f \in D.reg_names, s \in D.salts :
          RegisterCommit(c, p, f, s)

AuthSteps(D) ==
    \E c \in DOMAIN reqs, op \in D.ops, t \in TokensOf(D.tokens, D.usernames) : Authenticate(c, op, t)

AccountSteps(D) ==
    \/ \E c \in DOMAIN reqs, u \in D.usernames, p \in D.login_passwords : Login(c, u, p)
    \/ \E c \in DOMAIN reqs, t \in TokensOf(D.tokens, D.usernames) : get_my_profile(c, t)
    \/ \E c \in DOMAIN reqs, e \in D.put_emails \ {None} : UpdateMeSelectEmail(c, e)
    \/ \E c \in DOMAIN reqs, e \in D.put_emails, f \in D.put_names, p \in D.put_passwords,
          s \in D.salts : UpdateMeCommit(c, e, f, p, s)

BookSteps(D) ==
    \/ \E c \in DOMAIN reqs, b \in D.add_books : Cardinality(books) < D.max_books /\ add_book(c, b)
    \/ \E c \in DOMAIN reqs, id \in 1..(D.max_books + 1) : get_book(c, id)
    \/ \E c \in DOMAIN reqs, op \in {"put_book", "delete_book"}, id \in 1..(D.max_books + 1) :
          BookSelect(c, op, id)
    \/ \E c \in DOMAIN reqs, b \in D.put_books : update_book(c, b)
    \/ \E c \in DOMAIN reqs : delete_book(c)

ListSteps(D) ==
    \/ \E c \in DOMAIN reqs : get_my_full_profile(c)
    \/ \E c \in DOMAIN reqs, sk \in Skips, li \in Limits, a \in D.filters, t \in D.filters :
          get_my_books(c, sk, li, a, t)

BookOps == {"add_book", "get_profile", "get_books", "get_book", "put_book", "delete_book"}

Secret1 == CHOOSE p \in Passwords : p.first72 = "secret1"
Secret2 == CHOOSE p \in Passwords : p.first72 = "secret2" /\ p.rest = ""

\* accounts: two connections, registration and profile updates interleaved
AccountRequests ==
    [usernames |-> Usernames, reg_emails |-> Emails \cup {None}, reg_passwords |-> {Secret1},
     reg_names |-> {None}, salts |-> {"saltA"}, login_passwords |-> {Secret1},
     tokens |-> {"valid", "expired"}, ops |-> {"put_me"},
     put_emails |-> Emails \cup {None}, put_names |-> {None}, put_passwords |-> {NoPassword}]

AccountNext ==
    \/ RegisterSteps(AccountRequests)
    \/ AuthSteps(AccountRequests)
    \/ AccountSteps(AccountRequests)
    \/ Restart

Spec == InitWith({1, 2}) /\ [][AccountNext]_vars

\* books: two connections, the /books/{id} endpoints interleaved
BookRequests ==
    [usernames |-> Usernames, reg_emails |-> {None, "b@x.io"}, reg_passwords |-> {Secret1},
     reg_names |-> {None}, salts |-> {"saltA"},
     tokens |-> {"valid"}, ops |-> {"add_book", "get_book", "put_book", "delete_book"},
     add_books |-> {Dune, Emma}, put_books |-> {Dune, Emma}, max_books |-> MaxBooks]

BookNext ==
    \/ RegisterSteps(BookRequests)
    \/ AuthSteps(BookRequests)
    \/ BookSteps(BookRequests)

SpecBooks == InitWith({1, 2}) /\ [][BookNext]_vars

\* every endpoint and every kind of token, one request at a time
AllRequests ==
    [usernames |-> Usernames, reg_emails |-> {None, "b@x.io"}, reg_passwords |-> {Secret1},
     reg_names |-> {None}, salts |-> {"saltA"}, login_passwords |-> Passwords,
     tokens |-> AllTokenKinds, ops |-> {"put_me"} \cup BookOps,
     put_emails |-> {None, "a@x.io"}, put_names |-> {None}, put_passwords |-> {NoPassword},
     add_books |-> {Dune}, put_books |-> {Dune, Emma}, filters |-> Filters, max_books |-> MaxBooks]

AllNext ==
    \/ RegisterSteps(AllRequests)
    \/ AuthSteps(AllRequests)
    \/ AccountSteps(AllRequests)
    \/ BookSteps(AllRequests)
    \/ ListSteps(AllRequests)
    \/ Restart

SpecAll == InitWith({1}) /\ [][AllNext]_vars

\* the update endpoints with every combination of profile fields, one
\* request at a time, while the clock runs
UpdateRequests ==
    [usernames |-> Usernames, reg_emails |-> {None, "b@x.io"}, reg_passwords |-> {Secret1},
     reg_names |-> {None}, salts |-> {"saltA"},
     tokens |-> {"valid"}, ops |-> {"put_me", "add_book", "put_book"},
     put_emails |-> {None, "a@x.io"}, put_names |-> {None, "Ann"},
     put_passwords |-> {NoPassword, Secret2},
     add_books |-> {Dune}, put_books |-> {Emma}, max_books |-> MaxBooks]

UpdateNext ==
    \/ RegisterSteps(UpdateRequests)
    \/ AuthSteps(UpdateRequests)
    \/ \E c \in DOMAIN reqs, e \in UpdateRequests.put_emails \ {None} : UpdateMeSelectEmail(c, e)
    \/ \E c \in DOMAIN reqs, e \in UpdateRequests.put_emails, f \in UpdateRequests.put_names,
          p \in UpdateRequests.put_passwords, s \in UpdateRequests.salts : UpdateMeCommit(c, e, f, p, s)
    \/ \E c \in DOMAIN reqs, b \in UpdateRequests.add_books :
          Cardinality(books) < UpdateRequests.max_books /\ add_book(c, b)
    \/ \E c \in DOMAIN reqs, id \in 1..(UpdateRequests.max_books + 1) : BookSelect(c, "put_book", id)
    \/ \E c \in DOMAIN reqs, b \in UpdateRequests.put_books : update_book(c, b)
    \/ PassSecond

SpecUpdate == InitWith({1}) /\ [][UpdateNext]_vars

(******************************* token lifetime ****************************)
\* a client is handed a token (the last statements of register and login)
\* and keeps it; connection 0 presents the tokens again later
Holders == {1, 2}

IssueToken(c, username) ==
    /\ reqs[c].pc = "idle"
    /\ now <= MaxIssue
    /\ Reply(c, [pc |-> "token", op |-> "login", sub |-> username, at |-> now,
                 token |-> create_access_token(username, now)])
    /\ UNCHANGED <<users, books, now>>

\* payload = verify_jwt_token(token), the first statement of get_current_user
VerifyToken(v, c) ==
    /\ reqs[c].pc = "token"
    /\ Reply(v, [pc |-> "verified", op |-> "get_me", of |-> c,
                 payload |-> verify_jwt_token(reqs[c].token, now)])
    /\ UNCHANGED <<users, books, now>>

PassTick ==
    /\ now < MaxIssue + TokenLifetime + TokSlack
    /\ now' = now + 1
    /\ UNCHANGED <<users, books, reqs>>

TokNext ==
    \/ \E c \in Holders, u \in Usernames : IssueToken(c, u)
    \/ \E c \in Holders : VerifyToken(0, c)
    \/ PassTick

SpecTok == InitWith({0} \cup Holders) /\ [][TokNext]_vars

(***************************************************************************)
(*                              properties                                 *)
(***************************************************************************)
\* connection c moved: its request took a step, or a new one came in
Stepped(c) ==
    LET a == reqs[c]
        b == reqs'[c]
    IN IF a.pc # b.pc THEN TRUE
       ELSE IF a.pc = "idle" THEN FALSE
       ELSE IF a.op # b.op THEN TRUE
       ELSE IF a.pc # "done" THEN a # b
       ELSE a.status # b.status \/ a.uid # b.uid \/ a.arg # b.arg \/ a.body # b.body
Finished(r, op) == r.pc = "done" /\ r.op = op

(* C2: a POST /register whose username (or email) is held by a row when its
   INSERT takes effect ends with the 400 conflict and creates no user, in
   every interleaving. *)
C2_RegisterConflictIs400 ==
    [][\A c \in DOMAIN reqs :
          (/\ reqs[c].pc = "reg_commit" /\ Stepped(c) /\ reqs'[c].pc = "done"
           /\ \/ ByUsername(users, reqs[c].arg.username) # {}
              \/ reqs[c].arg.email # None /\ ByEmail(users, reqs[c].arg.email) # {})
          => reqs'[c].status = 400 /\ users' = users]_vars

(* C9: in every reachable state no two user rows share a username and no
   two share a non-null email; rows without email are not limited. *)
C9_Uniqueness ==
    \A u, v \in users :
        u # v => /\ u.id # v.id
                 /\ u.username # v.username
                 /\ (u.email = None \/ u.email # v.email)

\* two registrations of one username passed the check together; one row was
\* inserted and the other INSERT was refused
C9_Witness ==
    \E c, d \in DOMAIN reqs :
        /\ c # d
        /\ Finished(reqs[c], "register") /\ reqs[c].status = 200
        /\ Finished(reqs[d], "register") /\ reqs[d].status = 500
        /\ reqs[c].arg.username = reqs[d].arg.username
        /\ Cardinality(ByEmail(users, None)) = 2

(* C1: no request by a user Y reads, changes or deletes a book whose owner
   is another user: every book a step of Y's request returns has owner Y,
   and every row it changes, inserts or removes has owner Y. *)
C1_OwnershipIsolation ==
    [][\A c \in DOMAIN reqs :
          (reqs[c].pc \in {"authed", "bk_commit"} /\ Stepped(c) /\ reqs'[c].pc # "idle") =>
             LET me == reqs[c].cu.id
                 r  == reqs'[c]
             IN /\ \A b \in (books \ books') \cup (books' \ books) : b.owner_id = me
                /\ (r.pc = "done" /\ r.status = 200 /\ r.op \in {"add_book", "get_book", "put_book"})
                      => r.body.owner_id = me
                /\ Finished(r, "get_books") => \A i \in DOMAIN r.body : r.body[i].owner_id = me
                /\ Finished(r, "get_profile") =>
                      \A i \in DOMAIN r.body.books : r.body.books[i].owner_id = me]_vars

\* the id a /books/{id} request looked up
LookupId(r) == IF r.pc = "done" THEN r.arg.id ELSE r.bk.id

(* C7: once DELETE /books/{id} by the owner has returned 200, every later
   lookup of that id by the same caller (GET, PUT or DELETE) returns 404. *)
C7_DeleteIsFinal ==
    [][\A d, c \in DOMAIN reqs :
          (/\ d # c
           /\ Finished(reqs[d], "delete_book") /\ reqs[d].status = 200
           /\ reqs[c].pc = "authed" /\ reqs[c].op \in {"get_book", "put_book", "delete_book"}
           /\ reqs[c].cu.id = reqs[d].uid
           /\ Stepped(c)
           /\ LookupId(reqs'[c]) = reqs[d].arg.id)
          => reqs'[c].pc = "done" /\ reqs'[c].status = 404]_vars

(* C8: what a /books/{id} request of Y is answered does not depend on the
   books of other users: every step of it gives the same response on the
   table as on the table without the other users' books. *)
C8_ExistenceNotLeaked ==
    \A c \in DOMAIN reqs :
        LET r == reqs[c] IN
        /\ (r.pc = "authed" /\ r.op \in {"get_book", "put_book", "delete_book"}) =>
              \A id \in 1..(MaxBooks + 1) :
                 FindBook(books, id, r.cu.id) = FindBook(ByOwner(books, r.cu.id), id, r.cu.id)
        /\ (r.pc = "bk_commit" /\ r.op = "put_book") =>
              \A data \in {Dune, Emma} :
                 LET seen == UpdateBookWrite(books, r.bk, data)
                     own  == UpdateBookWrite(ByOwner(books, r.cu.id), r.bk, data)
                 IN seen.status = own.status /\ (seen.status = 200 => seen.body = own.body)

\* the email a PUT /me carries, read off the request's next position
RequestedEmail(r) == IF r.pc = "done" THEN r.arg.email ELSE r.email

(* C3: a PUT /me whose email differs from the caller's current email and is
   held by another user returns 400 and changes no user row (not the email,
   not the full_name, not the password hash) and no book. *)
C3_EmailConflictKeepsRecord ==
    [][\A c \in DOMAIN reqs :
          (/\ reqs[c].pc = "authed" /\ reqs[c].op = "put_me"
           /\ Stepped(c) /\ reqs'[c].pc # "idle"
           /\ LET e == RequestedEmail(reqs'[c]) IN
                 /\ e # None
                 /\ e # reqs[c].cu.email
                 /\ \E u \in users : u.id # reqs[c].cu.id /\ u.email = e)
          => /\ reqs'[c].pc = "done"
             /\ reqs'[c].status = 400
             /\ users' = users
             /\ books' = books]_vars

C3_Witness ==
    \E c \in DOMAIN reqs :
        /\ Finished(reqs[c], "put_me")
        /\ reqs[c].status = 400
        /\ \E u, v \in users : /\ u.id = reqs[c].uid
                               /\ v.id # u.id
                               /\ v.email = reqs[c].arg.email
                               /\ u.email # v.email

\* the process went down and came up again
Restarted == /\ \E c \in DOMAIN reqs : reqs[c].pc # "idle"
             /\ \A c \in DOMAIN reqs : reqs'[c] = Idle

(* C4 (as stated): right after a startup both tables are empty, every user
   and book created before the restart is gone. *)
C4_RestartWipes ==
    [][Restarted => users' = {} /\ books' = {}]_vars

(* C4 (amended): startup only creates missing tables, so every user and
   every book stored before a restart is stored after it. *)
C4_RestartKeepsRows ==
    [][Restarted => users' = users /\ books' = books]_vars

C4_Witness ==
    /\ \A c \in DOMAIN reqs : reqs[c] = Idle
    /\ users # {}
    /\ books # {}

ProtectedOps == {"get_me", "put_me"} \cup BookOps

\* missing, malformed, wrongly signed, expired, or without a subject
BadToken(t) ==
    \/ t.kind # "jwt"
    \/ t.key # SECRET_KEY
    \/ t.exp < Seconds(now)
    \/ t.sub = None

(* C5: on every protected endpoint a bad token ends the request with 401, a
   good token whose subject has no row ends it with 404, in both cases with
   users and books unchanged; a request gets past the gate only with a good
   token whose subject has a row, and then runs as that user to its end. *)
C5_AuthGate ==
    [][\A c \in DOMAIN reqs :
          LET r == reqs'[c] IN
          /\ (Free(c) /\ Stepped(c) /\ r.pc # "idle" /\ r.op \in ProtectedOps) =>
                /\ users' = users /\ books' = books
                /\ r.pc \in {"authed", "done"}
                /\ r.pc = "authed" =>
                      /\ ~BadToken(r.tok)
                      /\ r.cu \in users
                      /\ r.cu.username = r.tok.sub
                /\ r.pc = "done" =>
                      IF BadToken(r.arg) THEN r.status = 401
                      ELSE IF ByUsername(users, r.arg.sub) = {} THEN r.status = 404
                      ELSE /\ r.op = "get_me" /\ r.status = 200
                           /\ r.body \in users /\ r.body.username = r.arg.sub
          /\ (reqs[c].pc \in {"authed", "me_commit", "bk_commit"} /\ Stepped(c) /\ r.pc # "idle") =>
                /\ r.op = reqs[c].op
                /\ IF r.pc = "done" THEN r.uid = reqs[c].cu.id ELSE r.cu = reqs[c].cu]_vars

C5_Witness ==
    \E c \in DOMAIN reqs :
        /\ reqs[c].pc = "done"
        /\ reqs[c].op \in BookOps
        /\ reqs[c].status = 404
        /\ reqs[c].uid = 0
        /\ reqs[c].body = "User not found"
        /\ users # {}

\* what verification of the token a holder keeps gives now
VerifiedNow(c) == verify_jwt_token(reqs[c].token, now)

(* C6 (as stated): a token issued at time t for U verifies to subject U at
   every time strictly before t + 10 minutes and to the invalid outcome at
   every time after t + 10 minutes. *)
C6_TokenLifetime ==
    \A c \in Holders :
        reqs[c].pc = "token" =>
            /\ now < reqs[c].at + TokenLifetime =>
                  VerifiedNow(c) # NoPayload /\ VerifiedNow(c).sub = reqs[c].sub
            /\ now > reqs[c].at + TokenLifetime => VerifiedNow(c) = NoPayload

(* C6 (amended): a token issued at time t for U verifies to subject U at
   every time strictly before t + 10 minutes and to the invalid outcome at
   every time from t + 10 minutes + 1 second on, whatever other tokens have
   been issued for U. *)
C6_TokenLifetimeSeconds ==
    \A c \in Holders :
        reqs[c].pc = "token" =>
            /\ now < reqs[c].at + TokenLifetime =>
                  VerifiedNow(c) # NoPayload /\ VerifiedNow(c).sub = reqs[c].sub
            /\ now >= reqs[c].at + TokenLifetime + TicksPerSecond => VerifiedNow(c) = NoPayload

C6_Witness ==
    \E c, d \in Holders :
        /\ c # d
        /\ reqs[c].pc = "token" /\ reqs[d].pc = "token"
        /\ reqs[c].sub = reqs[d].sub
        /\ reqs[0].pc = "verified" /\ reqs[0].of = c /\ reqs[0].payload = NoPayload
        /\ VerifiedNow(c) = NoPayload
        /\ VerifiedNow(d) # NoPayload

(* C10: a successful PUT /books/{id} replaces the title, author, year and
   description of that one row and nothing else; a successful PUT /me
   changes only those of email, full_name and password hash the request
   supplied and nothing else; no step changes the owner of a book or the
   creation timestamp of a row. *)
C10_UpdateFrame ==
    [][\A c \in DOMAIN reqs :
          LET r == reqs'[c] IN
          /\ (reqs[c].pc = "bk_commit" /\ Stepped(c) /\ Finished(r, "put_book") /\ r.status = 200) =>
                \E b \in books :
                   /\ b.id = reqs[c].bk.id
                   /\ r.body = [b EXCEPT !.title = r.arg.data.title,
                                         !.author = r.arg.data.author,
                                         !.year = r.arg.data.year,
                                         !.description = r.arg.data.description]
                   /\ books' = (books \ {b}) \cup {r.body}
                   /\ users' = users
          /\ (reqs[c].pc \in {"authed", "me_commit"} /\ Stepped(c)
                 /\ Finished(r, "put_me") /\ r.status = 200) =>
                \E u \in users :
                   /\ u.id = reqs[c].cu.id
                   /\ r.body.id = u.id
                   /\ r.body.username = u.username
                   /\ r.body.created_at = u.created_at
                   /\ r.body.email = IF r.arg.email = None THEN u.email ELSE r.arg.email
                   /\ r.body.full_name = IF r.arg.full_name = None THEN u.full_name
                                         ELSE r.arg.full_name
                   /\ IF r.arg.password = NoPassword
                      THEN r.body.hashed_password = u.hashed_password
                      ELSE verify_password(r.arg.password, r.body.hashed_password)
                   /\ users' = (users \ {u}) \cup {r.body}
                   /\ books' = books
          /\ \A b \in books, n \in books' :
                b.id = n.id => b.owner_id = n.owner_id /\ b.created_at = n.created_at
          /\ \A u \in users, n \in users' : u.id = n.id => u.created_at = n.created_at]_vars

C10_Witness ==
    /\ \E c \in DOMAIN reqs :
          /\ Finished(reqs[c], "put_me")
          /\ reqs[c].status = 200
          /\ reqs[c].arg.full_name = None
          /\ reqs[c].arg.password # NoPassword
          /\ reqs[c].body.full_name # None
          /\ reqs[c].body.created_at < Seconds(now)
    /\ \E b \in books : b.title = Emma.title /\ b.created_at < Seconds(now)

====
